---------------------------- MODULE Spec2Model ----------------------------
(***************************************************************************)
(* The supplier-catalogue pipeline of the repository, in its two versions: *)
(*   "analyst"  : src/onedot_data_analyst_solution.py                      *)
(*   "solution" : src/onedot_solution.py                                   *)
(* raw attribute rows -> ID conversion -> sort -> groupby/agg ->           *)
(* aggr_attr -> normalize -> integrate -> Excel export.                    *)
(*                                                                         *)
(* A DataFrame is a sequence of rows; a row (a pandas Series) is a         *)
(* function from column names to cells.  A cell is a tagged record, so     *)
(* that a string, a float, NaN and None stay different values.             *)
(***************************************************************************)
EXTENDS Integers, Sequences, FiniteSets, TLC

VARIABLES
    prog,             \* which of the two scripts runs
    raw,              \* the rows read from supplier_car.json, in file order
    pc,               \* position of the script
    df,               \* the frame after the ID conversion / after the sort
    df_grp_agg,       \* groupby(...).agg(list).reset_index()
    df_grp_agg_attr,  \* the aggregated records (agg_data in "solution")
    normalized_df,    \* normalized records (normalized_data)
    integrated_df,    \* integrated records (formated_data)
    sheets,           \* names of the sheets written to the workbook
    exc,              \* the exception that ended the script, or "none"
    grp,              \* row-level run: one row of the grouped frame
    cols,             \* row-level run: columns other records give the frame
    row,              \* row-level run: the aggregated record
    nrow,             \* row-level run: the normalized record
    irow,             \* row-level run: the integrated record
    rpc               \* row-level run: position

vars == <<prog, raw, pc, df, df_grp_agg, df_grp_agg_attr, normalized_df,
          integrated_df, sheets, exc, grp, cols, row, nrow, irow, rpc>>

pipeVars == <<raw, pc, df, df_grp_agg, df_grp_agg_attr, normalized_df,
              integrated_df, sheets, exc>>

rowVars == <<grp, cols, row, nrow, irow, rpc>>

Progs == {"analyst", "solution"}

-----------------------------------------------------------------------------
(* Cells                                                                   *)

Str(s) == [t |-> "str", s |-> s]

Num(n) == [t |-> "num", n |-> n]

NaN == [t |-> "nan"]

None == [t |-> "none"]

List(l) == [t |-> "list", l |-> l]

\* A DataFrame returned by a call that may raise instead.
Frame(rows) == [t |-> "frame", rows |-> rows]

\* An exception leaving a function, by its Python class name.
Raise(e) == [t |-> "raise", exc |-> e]

IsStr(c) == c.t = "str"

IsNaN(c) == c.t = "nan"

\* Whether a result (a cell, a row or a frame) is an exception.
IsRaise(c) == "exc" \in DOMAIN c

\* Python truthiness of a cell: bool(float('nan')) is True, bool(None) and
\* bool("") are False.
Truthy(c) ==
    CASE c.t = "str" -> c.s # ""
      [] c.t = "num" -> c.n # 0
      [] c.t = "nan" -> TRUE
      [] c.t = "none" -> FALSE
      [] c.t = "list" -> c.l # <<>>
      [] OTHER -> TRUE

-----------------------------------------------------------------------------
(* Python str operations                                                   *)

UpperChars == "ABCDEFGHIJKLMNOPQRSTUVWXYZÄÖÜÉ"

LowerChars == "abcdefghijklmnopqrstuvwxyzäöüé"

CharAt(s, i) == SubSeq(s, i, i)

\* str.lower() of one character
LowerCh(c) ==
    IF \E i \in 1..Len(UpperChars) : CharAt(UpperChars, i) = c
    THEN LET i == CHOOSE i \in 1..Len(UpperChars) : CharAt(UpperChars, i) = c
         IN  CharAt(LowerChars, i)
    ELSE c

RECURSIVE Lower(_)
\* str.lower()
Lower(s) == IF s = "" THEN "" ELSE LowerCh(CharAt(s, 1)) \o Lower(Tail(s))

IsSpace(c) == c = " "

RECURSIVE LStrip(_)
LStrip(s) ==
    IF s # "" /\ IsSpace(CharAt(s, 1)) THEN LStrip(Tail(s)) ELSE s

RECURSIVE RStrip(_)
RStrip(s) ==
    IF s # "" /\ IsSpace(CharAt(s, Len(s)))
    THEN RStrip(SubSeq(s, 1, Len(s) - 1))
    ELSE s

\* str.strip()
Strip(s) == RStrip(LStrip(s))

\* s[:n]
Prefix(s, n) == SubSeq(s, 1, IF n < Len(s) THEN n ELSE Len(s))

\* s[n:]
Suffix(s, n) == SubSeq(s, n + 1, Len(s))

\* item in text   (substring containment, case-sensitive)
Contains(item, text) ==
    \E i \in 1..(Len(text) - Len(item) + 1) :
        SubSeq(text, i, i + Len(item) - 1) = item

-----------------------------------------------------------------------------
(* Rows                                                                    *)

\* row[column] = value : sets the cell, adding the column when it is new.
SetCol(r, column, value) == (column :> value) @@ r

\* dict lookup d[key] inside try/except KeyError: the table value, or "Other".
Lookup(table, r, column) ==
    IF column \notin DOMAIN r THEN Str("Other")
    ELSE IF r[column] \in DOMAIN table THEN Str(table[r[column]])
    ELSE Str("Other")

-----------------------------------------------------------------------------
(* Normalization rules                                                     *)

CarTypeTable ==
    (Str("Coupé") :> "Coupé") @@ (Str("Limousine") :> "Saloon") @@
    (Str("Cabriolet") :> "Convertible / Roadster") @@
    (Str("Kombi") :> "Station Wagon") @@ (Str("SUV / Geländewagen") :> "SUV")

\* "analyst": the seat count is compared with the string '1'.
norm_cartype(r) ==
    IF "Seats" \notin DOMAIN r THEN Raise("KeyError")
    ELSE IF r["Seats"] = Str("1") THEN Str("Single seater")
    ELSE Lookup(CarTypeTable, r, "BodyTypeText")

\* "solution": the seat count is compared with the integer 1.
normalize_cartype(r) ==
    IF "Seats" \notin DOMAIN r THEN Raise("KeyError")
    ELSE IF r["Seats"] = Num(1) THEN Str("Single seater")
    ELSE Lookup(CarTypeTable, r, "BodyTypeText")

\* The ordered (English, German substrings) pairs of the colour rule.
COLORS ==
    << [en |-> "Black", de |-> <<"schwarz">>],
       [en |-> "Silver", de |-> <<"silber">>],
       [en |-> "Blue", de |-> <<"blau">>],
       [en |-> "Gray", de |-> <<"grau", "anthrazit">>],
       [en |-> "White", de |-> <<"weiss">>],
       [en |-> "Red", de |-> <<"red", "bordeaux">>],
       [en |-> "Green", de |-> <<"grün">>],
       [en |-> "Yellow", de |-> <<"gelb">>],
       [en |-> "Purple", de |-> <<"violett">>],
       [en |-> "Gold", de |-> <<"gold">>],
       [en |-> "Brown", de |-> <<"braun">>],
       [en |-> "Orange", de |-> <<"orange">>],
       [en |-> "Beige", de |-> <<"beige">>] >>

RECURSIVE ScanItems(_, _, _)
\* the inner loop: for item in color_de: if item in text: return
ScanItems(de, k, text) ==
    IF k > Len(de) THEN FALSE
    ELSE IF Contains(de[k], text) THEN TRUE
    ELSE ScanItems(de, k + 1, text)

RECURSIVE ScanColors(_, _)
\* the outer loop over the pairs, from pair i on
ScanColors(i, text) ==
    IF i > Len(COLORS) THEN "Other"
    ELSE IF ScanItems(COLORS[i].de, 1, text) THEN COLORS[i].en
    ELSE ScanColors(i + 1, text)

\* norm_color with the pairs matched by equality instead of containment.
norm_color_equal(r) ==
    IF "BodyColorText" \notin DOMAIN r THEN Raise("KeyError")
    ELSE IF ~IsStr(r["BodyColorText"]) THEN Raise("TypeError")
    ELSE IF \E i \in 1..Len(COLORS) : \E k \in 1..Len(COLORS[i].de) :
                COLORS[i].de[k] = r["BodyColorText"].s
         THEN Str(ScanColors(1, r["BodyColorText"].s))
         ELSE Str("Other")

\* `item in row["BodyColorText"]` raises TypeError when the cell is not a
\* string (NaN is a float), KeyError when the frame has no such column.
norm_color(r) ==
    IF "BodyColorText" \notin DOMAIN r THEN Raise("KeyError")
    ELSE IF ~IsStr(r["BodyColorText"]) THEN Raise("TypeError")
    ELSE Str(ScanColors(1, r["BodyColorText"].s))

ConditionTable ==
    (Str("Occasion") :> "Used") @@ (Str("Oldtimer") :> "Restored") @@
    (Str("Neu") :> "New") @@ (Str("Vorführmodell") :> "Original Condition")

norm_condition(r) == Lookup(ConditionTable, r, "ConditionTypeText")

\* norm_variant with a fallback that reads BodyTypeText, the column the
\* carType rule writes, instead of TypeName.
norm_variant_bodytype(r) ==
    IF "ModelText" \notin DOMAIN r THEN Raise("KeyError")
    ELSE IF ~IsStr(r["ModelText"]) THEN Raise("AttributeError")
    ELSE IF "ModelTypeText" \notin DOMAIN r THEN Raise("KeyError")
    ELSE IF ~IsStr(r["ModelTypeText"]) THEN Raise("AttributeError")
    ELSE LET model == Strip(r["ModelText"].s)
             model_variant == Strip(r["ModelTypeText"].s)
         IN  IF Lower(Prefix(model_variant, Len(model))) = Lower(model)
             THEN Str(Strip(Suffix(model_variant, Len(model))))
             ELSE IF "BodyTypeText" \in DOMAIN r THEN r["BodyTypeText"]
             ELSE Raise("KeyError")

\* .strip() raises AttributeError on a cell that is not a string.
norm_variant(r) ==
    IF "ModelText" \notin DOMAIN r THEN Raise("KeyError")
    ELSE IF ~IsStr(r["ModelText"]) THEN Raise("AttributeError")
    ELSE IF "ModelTypeText" \notin DOMAIN r THEN Raise("KeyError")
    ELSE IF ~IsStr(r["ModelTypeText"]) THEN Raise("AttributeError")
    ELSE LET model == Strip(r["ModelText"].s)
             model_variant == Strip(r["ModelTypeText"].s)
         IN  IF Lower(Prefix(model_variant, Len(model))) = Lower(model)
             THEN Str(Strip(Suffix(model_variant, Len(model))))
             ELSE IF "TypeName" \in DOMAIN r THEN r["TypeName"]
             ELSE Raise("KeyError")

ZipTable ==
    (Str("Zuzwil") :> "9524") @@ (Str("Porrentruy") :> "2900") @@
    (Str("Sursee") :> "6210") @@ (Str("Safenwil") :> "5745") @@
    (Str("Basel") :> "4000") @@ (Str("St. Galen") :> "9000")

norm_zip(r) == Lookup(ZipTable, r, "City")

\* The (column, rule) pairs, in dict order.
NORM_FUNCT ==
    << <<"BodyTypeText", "cartype">>, <<"BodyColorText", "color">>,
       <<"Condition", "condition">>, <<"Variant", "variant">>,
       <<"Zip", "zip">> >>

\* funct(row) for one entry of the table, in program p.  The colour,
\* condition, variant and zip rules of "solution" (normalize_color, ...)
\* are the same text as those of "analyst".
funct(p, rule, r) ==
    CASE rule = "cartype" ->
            IF p = "analyst" THEN norm_cartype(r) ELSE normalize_cartype(r)
      [] rule = "color" -> norm_color(r)
      [] rule = "condition" -> norm_condition(r)
      [] rule = "variant" -> norm_variant(r)
      [] rule = "zip" -> norm_zip(r)

RECURSIVE ApplyRules(_, _, _)
\* for column, funct in pairs: row[column] = funct(row)
\* An exception raised by a rule leaves the loop (and the script).
ApplyRules(p, pairs, r) ==
    IF pairs = <<>> THEN r
    ELSE LET v == funct(p, Head(pairs)[2], r)
         IN  IF IsRaise(v) THEN v
             ELSE ApplyRules(p, Tail(pairs), SetCol(r, Head(pairs)[1], v))

normalize(p, r) == ApplyRules(p, NORM_FUNCT, r)

-----------------------------------------------------------------------------
(* Integration                                                             *)

\* The columns integrate reads; row[c] raises KeyError for a missing one.
IntegrateReads(p) ==
    {"BodyTypeText", "BodyColorText", "City", "MakeText", "FirstRegYear",
     "Km", "ModelText", "Variant", "Zip", "FirstRegMonth",
     "ConsumptionTotalText"}
    \cup (IF p = "analyst" THEN {"Condition"} ELSE {"ConditionTypeText"})

\* "l_km_consumption" if row[c] and row[c] != 'null' else None
FuelUnit(c) ==
    IF Truthy(c) /\ c # Str("null") THEN Str("l_km_consumption") ELSE None

integrate(p, r) ==
    IF ~(IntegrateReads(p) \subseteq DOMAIN r) THEN Raise("KeyError")
    ELSE [carType |-> r["BodyTypeText"], color |-> r["BodyColorText"],
          condition |-> IF p = "analyst" THEN r["Condition"]
                        ELSE r["ConditionTypeText"],
          currency |-> Str("CHF"), drive |-> Str("LHD"), city |-> r["City"],
          country |-> Str("CH"), make |-> r["MakeText"],
          manufacture_year |-> r["FirstRegYear"], mileage |-> r["Km"],
          mileage_unit |-> Str("kilometer"), model |-> r["ModelText"],
          model_variant |-> r["Variant"], price_on_request |-> None,
          type |-> Str("car"), zip |-> r["Zip"],
          manufacture_month |-> r["FirstRegMonth"],
          fuel_consumption_unit |-> FuelUnit(r["ConsumptionTotalText"])]

-----------------------------------------------------------------------------
(* ID conversion                                                           *)

Digits == "0123456789"

IsDigit(c) == \E i \in 1..Len(Digits) : CharAt(Digits, i) = c

DigitVal(c) == (CHOOSE i \in 1..Len(Digits) : CharAt(Digits, i) = c) - 1

AllDigits(s) == s # "" /\ \A i \in 1..Len(s) : IsDigit(CharAt(s, i))

RECURSIVE ParseNat(_)
ParseNat(s) ==
    IF s = "" THEN 0
    ELSE 10 * ParseNat(SubSeq(s, 1, Len(s) - 1)) + DigitVal(CharAt(s, Len(s)))

\* The integral part of a literal "<digits>" or "<digits>.0".
IntPart(s) ==
    IF Len(s) > 2 /\ SubSeq(s, Len(s) - 1, Len(s)) = ".0"
    THEN SubSeq(s, 1, Len(s) - 2)
    ELSE s

\* float(s) / pd.to_numeric on the literals the catalogue uses for IDs
\* ("976" and "976.0"); anything else is a ValueError.
ParseFloat(c) ==
    IF IsStr(c) /\ AllDigits(IntPart(c.s)) THEN Num(ParseNat(IntPart(c.s)))
    ELSE Raise("ValueError")

\* The conversion with errors='coerce': an unparseable ID becomes NaN and
\* nothing is raised.
ConvertID_coerce(frame) ==
    Frame([i \in 1..Len(frame) |->
        SetCol(frame[i], "ID",
               IF IsRaise(ParseFloat(frame[i]["ID"])) THEN NaN
               ELSE ParseFloat(frame[i]["ID"]))])

\* df['ID'].astype('float') / pd.to_numeric(df.ID): the frame with every ID
\* parsed, or the exception of the first ID that does not parse.
ConvertID(frame) ==
    IF \E i \in 1..Len(frame) : IsRaise(ParseFloat(frame[i]["ID"]))
    THEN Raise("ValueError")
    ELSE Frame([i \in 1..Len(frame) |->
                   SetCol(frame[i], "ID", ParseFloat(frame[i]["ID"]))])

-----------------------------------------------------------------------------
(* Sort, groupby, aggregation                                              *)

CONSTANT_COLUMNS ==
    <<"ID", "MakeText", "TypeName", "TypeNameFull", "ModelText",
      "ModelTypeText">>

\* The grouping key of a row: its cells in the six constant columns.
KeyOf(r) == [k \in 1..Len(CONSTANT_COLUMNS) |-> r[CONSTANT_COLUMNS[k]]]

\* Characters in code-point order, for the comparison of str keys.
CodeOrder ==
    " ./0123456789ABCDEFGHIJKLMNOPQRSTUVWXYZabcdefghijklmnopqrstuvwxyzÄÉÖÜäéöü"

Ord(c) == CHOOSE i \in 1..Len(CodeOrder) : CharAt(CodeOrder, i) = c

RECURSIVE StrLess(_, _)
\* a < b on Python strings
StrLess(a, b) ==
    IF b = "" THEN FALSE
    ELSE IF a = "" THEN TRUE
    ELSE IF CharAt(a, 1) = CharAt(b, 1) THEN StrLess(Tail(a), Tail(b))
    ELSE Ord(CharAt(a, 1)) < Ord(CharAt(b, 1))

\* Order of two different cells of one key column; a missing value sorts
\* last.
CellLess(a, b) ==
    CASE IsNaN(b) -> ~IsNaN(a)
      [] IsNaN(a) -> FALSE
      [] a.t = "num" /\ b.t = "num" -> a.n < b.n
      [] a.t = "str" /\ b.t = "str" -> StrLess(a.s, b.s)
      [] OTHER -> FALSE

RECURSIVE KeyLessFrom(_, _, _)
KeyLessFrom(k, a, b) ==
    IF k > Len(a) THEN FALSE
    ELSE IF a[k] = b[k] THEN KeyLessFrom(k + 1, a, b)
    ELSE CellLess(a[k], b[k])

\* Lexicographic order of the group keys (groupby sorts its groups).
KeyLess(a, b) == KeyLessFrom(1, a, b)

RECURSIVE SortKeys(_)
SortKeys(S) ==
    IF S = {} THEN <<>>
    ELSE LET m == CHOOSE m \in S : \A o \in S \ {m} : KeyLess(m, o)
         IN  <<m>> \o SortKeys(S \ {m})

RECURSIVE StableSort(_)
\* The rows in ascending ID, ties in their order in the frame.
StableSort(frame) ==
    IF frame = <<>> THEN <<>>
    ELSE LET n == Len(frame)
             init == StableSort(SubSeq(frame, 1, n - 1))
             last == frame[n]
             k == Cardinality({i \in 1..Len(init) :
                                  init[i]["ID"].n <= last["ID"].n})
         IN  SubSeq(init, 1, k) \o <<last>> \o SubSeq(init, k + 1, Len(init))

\* Rows that tie on ID, belong to one group and carry one attribute name.
SameSlot(a, b) ==
    KeyOf(a) = KeyOf(b) /\ a["Attribute Names"] = b["Attribute Names"]

RECURSIVE TieOrders(_, _, _)
\* The index sequences that fill position i.. of s with unused rows of the
\* same slot.
TieOrders(s, i, used) ==
    IF i > Len(s) THEN {<<>>}
    ELSE UNION {{<<j>> \o rest : rest \in TieOrders(s, i + 1, used \cup {j})} :
                j \in {j \in 1..Len(s) \ used : SameSlot(s[i], s[j])}}

\* df.sort_values("ID"): the default kind is 'quicksort', which is not
\* stable, so rows that tie on ID come out in an order the call does not
\* fix.  Exchanging two tied rows changes an aggregated record only when they
\* belong to one group and carry one attribute name; the outcomes enumerated
\* are the stable order with the rows of every such slot in every order.
SortOutcomes(frame) ==
    LET s == StableSort(frame)
    IN  {[i \in 1..Len(s) |-> s[o[i]]] : o \in TieOrders(s, 1, {})}

HasNA(key) == \E k \in 1..Len(key) : IsNaN(key[k])

\* The keys groupby keeps: dropna=False keeps a key with a missing cell,
\* the default (dropna=True) drops it.
GroupKeys(p, frame) ==
    LET all == {KeyOf(frame[i]) : i \in 1..Len(frame)}
    IN  IF p = "analyst" THEN all ELSE {k \in all : ~HasNA(k)}

RECURSIVE Collect(_, _, _)
\* agg(list): the cells of one column over the rows of a group, in order.
Collect(frame, key, column) ==
    IF frame = <<>> THEN <<>>
    ELSE IF KeyOf(Head(frame)) = key
         THEN <<Head(frame)[column]>> \o Collect(Tail(frame), key, column)
         ELSE Collect(Tail(frame), key, column)

\* One row of groupby(...).agg({...: list}).reset_index()
GroupRow(frame, key) ==
    [c \in {CONSTANT_COLUMNS[k] : k \in 1..Len(CONSTANT_COLUMNS)}
           \cup {"Attribute Names", "Attribute Values"} |->
        IF c = "Attribute Names" THEN List(Collect(frame, key, c))
        ELSE IF c = "Attribute Values" THEN List(Collect(frame, key, c))
        ELSE key[CHOOSE k \in 1..Len(CONSTANT_COLUMNS) :
                    CONSTANT_COLUMNS[k] = c]]

\* .astype('str') of one cell: NaN becomes the string "nan".
AsStr(c) == IF IsNaN(c) THEN Str("nan") ELSE c

\* df_grp_agg['ModelText'].astype('str') - only in "analyst".
ModelTextAsStr(p, r) ==
    IF p = "analyst" THEN SetCol(r, "ModelText", AsStr(r["ModelText"])) ELSE r

\* The grouped frame: one row per kept key, in key order.
GroupByAgg(p, frame) ==
    LET keys == SortKeys(GroupKeys(p, frame))
    IN  [g \in 1..Len(keys) |-> ModelTextAsStr(p, GroupRow(frame, keys[g]))]

RECURSIVE ZipDict(_, _)
\* {key: value for key, value in zip(names, values)}: a later pair with the
\* same key overwrites the earlier one.
ZipDict(names, values) ==
    IF names = <<>> \/ values = <<>> THEN <<>>
    ELSE LET n == IF Len(names) < Len(values) THEN Len(names) ELSE Len(values)
         IN  (names[n].s :> values[n]) @@
             ZipDict(SubSeq(names, 1, n - 1), SubSeq(values, 1, n - 1))

\* aggr_attr / aggregate_attributes: the attribute dict, updated with the
\* constant columns.
aggr_attr(r) ==
    [c \in {CONSTANT_COLUMNS[k] : k \in 1..Len(CONSTANT_COLUMNS)} |-> r[c]]
    @@ ZipDict(r["Attribute Names"].l, r["Attribute Values"].l)

\* A record as a row of a frame with the given columns: NaN where it has
\* no value.
Reindex(r, columns) ==
    [c \in columns |-> IF c \in DOMAIN r THEN r[c] ELSE NaN]

\* frame.apply(aggr_attr, axis=1): the columns are the union of the
\* records' columns.
ApplyAggr(frame) ==
    LET recs == [i \in 1..Len(frame) |-> aggr_attr(frame[i])]
        columns == UNION {DOMAIN recs[i] : i \in 1..Len(recs)}
    IN  [i \in 1..Len(recs) |-> Reindex(recs[i], columns)]

-----------------------------------------------------------------------------
(* Inputs of the whole-script specification                                *)

\* Number of rows of the input beside the complete vehicle.
MaxRows == 2

RawRow(id, model, name, value) ==
    [c \in {"ID", "MakeText", "TypeName", "TypeNameFull", "ModelText",
            "ModelTypeText", "Attribute Names", "Attribute Values"} |->
        CASE c = "ID" -> Str(id)
          [] c = "MakeText" -> Str("AUDI")
          [] c = "TypeName" -> Str("A4 Avant 2.0")
          [] c = "TypeNameFull" -> Str("AUDI A4 Avant 2.0")
          [] c = "ModelText" -> model
          [] c = "ModelTypeText" -> Str("A4 Avant")
          [] c = "Attribute Names" -> Str(name)
          [] c = "Attribute Values" -> Str(value)]

\* A vehicle with every attribute the later stages read, one row each.
BaseAttrs ==
    << <<"Seats", "5">>, <<"BodyTypeText", "Kombi">>,
       <<"BodyColorText", "schwarz">>, <<"ConditionTypeText", "Occasion">>,
       <<"City", "Basel">>, <<"FirstRegYear", "2010">>,
       <<"FirstRegMonth", "6">>, <<"Km", "100000">>,
       <<"ConsumptionTotalText", "7.5 l/100km">> >>

BaseRows ==
    [i \in 1..Len(BaseAttrs) |->
        RawRow("1.0", Str("A4"), BaseAttrs[i][1], BaseAttrs[i][2])]

\* The further rows: a parseable or unparseable ID, model text present or
\* missing, and an attribute the complete vehicle also has.
ExtraRows ==
    {RawRow(id, model, a[1], a[2]) :
        id \in {"1", "2", "x"}, model \in {Str("A4"), NaN},
        a \in {<<"Seats", "1">>, <<"BodyColorText", "blau">>}}

RECURSIVE SeqsUpTo(_, _)
\* The sequences over S of length at most n.
SeqsUpTo(S, n) ==
    IF n = 0 THEN {<<>>}
    ELSE LET shorter == SeqsUpTo(S, n - 1)
         IN  shorter \cup {Append(q, x) : q \in shorter, x \in S}

RawInputs ==
    {BaseRows \o extra : extra \in SeqsUpTo(ExtraRows, MaxRows)}
    \cup (SeqsUpTo(ExtraRows, MaxRows) \ {<<>>})

SheetNames == {"Pre-processed Data", "Normalized Data", "Integrated Data"}

RowIdle ==
    /\ grp = <<>> /\ cols = {} /\ row = <<>> /\ nrow = <<>> /\ irow = <<>>
    /\ rpc = "off"

Init ==
    /\ prog \in Progs
    /\ raw \in RawInputs
    /\ pc = "read"
    /\ df = raw
    /\ df_grp_agg = <<>>
    /\ df_grp_agg_attr = <<>>
    /\ normalized_df = <<>>
    /\ integrated_df = <<>>
    /\ sheets = {}
    /\ exc = "none"
    /\ RowIdle

-----------------------------------------------------------------------------
(* The script, statement by statement                                      *)

\* df['ID'] = df['ID'].astype('float')   /   df.ID = pd.to_numeric(df.ID)
ConvertIDStep ==
    /\ pc = "read"
    /\ LET res == ConvertID(df)
       IN  IF IsRaise(res)
           THEN /\ pc' = "aborted" /\ exc' = res.exc /\ df' = df
           ELSE /\ pc' = "converted" /\ exc' = exc /\ df' = res.rows
    /\ UNCHANGED <<prog, raw, df_grp_agg, df_grp_agg_attr, normalized_df,
                   integrated_df, sheets>>
    /\ UNCHANGED rowVars

\* df = df.sort_values("ID")
SortValues ==
    /\ pc = "converted"
    /\ df' \in SortOutcomes(df)
    /\ pc' = "sorted"
    /\ UNCHANGED <<prog, raw, df_grp_agg, df_grp_agg_attr, normalized_df,
                   integrated_df, sheets, exc>>
    /\ UNCHANGED rowVars

\* df.groupby(CONSTANT_COLUMNS[, dropna=False]).agg(list).reset_index()
\* and, in "analyst", the astype('str') of ModelText
GroupAgg ==
    /\ pc = "sorted"
    /\ df_grp_agg' = GroupByAgg(prog, df)
    /\ pc' = "grouped"
    /\ UNCHANGED <<prog, raw, df, df_grp_agg_attr, normalized_df,
                   integrated_df, sheets, exc>>
    /\ UNCHANGED rowVars

\* df_grp_agg.apply(aggr_attr, axis=1)
Aggregate ==
    /\ pc = "grouped"
    /\ df_grp_agg_attr' = ApplyAggr(df_grp_agg)
    /\ pc' = "aggregated"
    /\ UNCHANGED <<prog, raw, df, df_grp_agg, normalized_df, integrated_df,
                   sheets, exc>>
    /\ UNCHANGED rowVars

\* The exception of the first row on which f raises, if any.
FirstRaise(res) ==
    res[CHOOSE i \in 1..Len(res) :
            IsRaise(res[i]) /\ \A j \in 1..(i - 1) : ~IsRaise(res[j])]

\* normalized_df = df_grp_agg_attr.apply(normalize, axis=1)
Normalize ==
    /\ pc = "aggregated"
    /\ LET res == [i \in 1..Len(df_grp_agg_attr) |->
                      normalize(prog, df_grp_agg_attr[i])]
       IN  IF \E i \in 1..Len(res) : IsRaise(res[i])
           THEN /\ pc' = "aborted" /\ exc' = FirstRaise(res).exc
                /\ normalized_df' = normalized_df
           ELSE /\ pc' = "normalized" /\ exc' = exc /\ normalized_df' = res
    /\ UNCHANGED <<prog, raw, df, df_grp_agg, df_grp_agg_attr, integrated_df,
                   sheets>>
    /\ UNCHANGED rowVars

\* integrated_df = normalized_df.apply(integrate, axis=1)
Integrate ==
    /\ pc = "normalized"
    /\ LET res == [i \in 1..Len(normalized_df) |->
                      integrate(prog, normalized_df[i])]
       IN  IF \E i \in 1..Len(res) : IsRaise(res[i])
           THEN /\ pc' = "aborted" /\ exc' = FirstRaise(res).exc
                /\ integrated_df' = integrated_df
           ELSE /\ pc' = "integrated" /\ exc' = exc /\ integrated_df' = res
    /\ UNCHANGED <<prog, raw, df, df_grp_agg, df_grp_agg_attr, normalized_df,
                   sheets>>
    /\ UNCHANGED rowVars

\* with pd.ExcelWriter(...) as writer: the three to_excel calls
Export ==
    /\ pc = "integrated"
    /\ sheets' = SheetNames
    /\ pc' = "done"
    /\ UNCHANGED <<prog, raw, df, df_grp_agg, df_grp_agg_attr, normalized_df,
                   integrated_df, exc>>
    /\ UNCHANGED rowVars

Next ==
    \/ ConvertIDStep
    \/ SortValues
    \/ GroupAgg
    \/ Aggregate
    \/ Normalize
    \/ Integrate
    \/ Export

Spec == Init /\ [][Next]_vars

-----------------------------------------------------------------------------
(* Row-level specifications: one group of the grouped frame taken through  *)
(* aggr_attr, normalize and integrate.                                     *)

\* The attribute is not among the rows of the group.
Absent == [t |-> "absent"]

\* The attribute names the later stages read, in the order of the rows.
AttrNames ==
    <<"Seats", "BodyTypeText", "BodyColorText", "ConditionTypeText", "City",
      "FirstRegYear", "FirstRegMonth", "Km", "ConsumptionTotalText">>

AttrSet == {AttrNames[i] : i \in 1..Len(AttrNames)}

\* One row of the grouped frame: the key cells (ModelText still as grouped,
\* before any astype) and the lists of the attributes that are present.
MkGrp(typeName, model, modelType, choice) ==
    LET present == SelectSeq(AttrNames, LAMBDA a : choice[a] # Absent)
    IN  [c \in {"ID", "MakeText", "TypeName", "TypeNameFull", "ModelText",
                "ModelTypeText", "Attribute Names", "Attribute Values"} |->
            CASE c = "ID" -> Num(5)
              [] c = "MakeText" -> Str("AUDI")
              [] c = "TypeName" -> typeName
              [] c = "TypeNameFull" -> Str("AUDI A4 Avant 2.0")
              [] c = "ModelText" -> model
              [] c = "ModelTypeText" -> modelType
              [] c = "Attribute Names" ->
                    List([i \in 1..Len(present) |-> Str(present[i])])
              [] c = "Attribute Values" ->
                    List([i \in 1..Len(present) |-> choice[present[i]]])]

Choice(seats, body, color, cond, city, cons) ==
    [a \in AttrSet |->
        CASE a = "Seats" -> seats
          [] a = "BodyTypeText" -> body
          [] a = "BodyColorText" -> color
          [] a = "ConditionTypeText" -> cond
          [] a = "City" -> city
          [] a = "FirstRegYear" -> Str("2010")
          [] a = "FirstRegMonth" -> Str("6")
          [] a = "Km" -> Str("100000")
          [] a = "ConsumptionTotalText" -> cons]

PipeIdle ==
    /\ raw = <<>> /\ pc = "off" /\ df = <<>> /\ df_grp_agg = <<>>
    /\ df_grp_agg_attr = <<>> /\ normalized_df = <<>> /\ integrated_df = <<>>
    /\ sheets = {} /\ exc = "none"

RowStart ==
    /\ rpc = "grouped" /\ row = <<>> /\ nrow = <<>> /\ irow = <<>>
    /\ PipeIdle

\* A group with a missing key cell exists only under dropna=False.
Groupable(p, model, modelType) ==
    p = "analyst" \/ (~IsNaN(model) /\ ~IsNaN(modelType))

\* Every rule's input present, unmatched or missing; the frame with or
\* without other records that carry every attribute.
InitRow ==
    /\ prog \in Progs
    /\ cols \in {AttrSet, {}}
    /\ \E seats \in {Absent, Str("1"), Str("5")},
          body \in {Absent, Str("Coupé"), Str("Limousine"), Str("Cabriolet"),
                    Str("Kombi"), Str("SUV / Geländewagen"), Str("Van")},
          color \in {Absent, Str("schwarz"), Str("xyz")},
          cond \in {Absent, Str("Occasion"), Str("Unfall")},
          city \in {Absent, Str("Basel"), Str("Zurich")},
          cons \in {Absent, Str("null"), Str("7.5 l/100km")},
          model \in {Str("A4"), NaN}, modelType \in {Str("A4 Avant")} :
            /\ Groupable(prog, model, modelType)
            /\ grp = MkGrp(Str("A4 Avant 2.0"), model, modelType,
                           Choice(seats, body, color, cond, city, cons))
    /\ RowStart

\* A smaller family of rows, with the variant rule's prefix and fallback
\* cases, for the order of the rules.
InitOrder ==
    /\ prog \in Progs
    /\ cols \in {AttrSet, {}}
    /\ \E seats \in {Absent, Str("1"), Str("5")},
          body \in {Absent, Str("Kombi"), Str("Van")},
          color \in {Absent, Str("schwarz"), Str("xyz")},
          cond \in {Absent, Str("Occasion"), Str("Unfall")},
          city \in {Absent, Str("Basel"), Str("Zurich")},
          model \in {Str("A4"), NaN},
          modelType \in {Str("A4 Avant"), Str("Q5 Sportback"), NaN} :
            /\ Groupable(prog, model, modelType)
            /\ grp = MkGrp(Str("Q5 Sportback 45"), model, modelType,
                           Choice(seats, body, color, cond, city, Str("7.5")))
    /\ RowStart

\* aggr_attr on the row of the grouped frame (after "analyst"'s astype),
\* as a row of a frame that has the columns `cols` from its other records.
AggrRow ==
    /\ rpc = "grouped"
    /\ LET rec == aggr_attr(ModelTextAsStr(prog, grp))
       IN  row' = Reindex(rec, DOMAIN rec \cup cols)
    /\ rpc' = "aggregated"
    /\ UNCHANGED <<prog, grp, cols, nrow, irow>>
    /\ UNCHANGED pipeVars

\* normalize(row)
NormalizeRow ==
    /\ rpc = "aggregated"
    /\ nrow' = normalize(prog, row)
    /\ rpc' = IF IsRaise(nrow') THEN "aborted" ELSE "normalized"
    /\ UNCHANGED <<prog, grp, cols, row, irow>>
    /\ UNCHANGED pipeVars

\* integrate(row)
IntegrateRow ==
    /\ rpc = "normalized"
    /\ irow' = integrate(prog, nrow)
    /\ rpc' = IF IsRaise(irow') THEN "aborted" ELSE "integrated"
    /\ UNCHANGED <<prog, grp, cols, row, nrow>>
    /\ UNCHANGED pipeVars

NextRow ==
    \/ AggrRow
    \/ NormalizeRow
    \/ IntegrateRow

SpecRow == InitRow /\ [][NextRow]_vars

SpecOrder == InitOrder /\ [][NextRow]_vars

-----------------------------------------------------------------------------
(* Colour texts                                                            *)

\* Number of fragments a colour text is made of.
MaxFrags == 2

\* Every German substring of the table, and fragments that match none
\* (another case, a broken word, other words).
Fragments ==
    UNION {{COLORS[i].de[k] : k \in 1..Len(COLORS[i].de)} :
              i \in 1..Len(COLORS)}
    \cup {" ", "xyz", "Schwarz", " metallic", "re", "d"}

RECURSIVE Texts(_)
\* The concatenations of at most n fragments.
Texts(n) ==
    IF n = 0 THEN {""}
    ELSE LET shorter == Texts(n - 1)
         IN  shorter \cup {a \o f : a \in shorter, f \in Fragments}

InitColor ==
    /\ prog \in Progs
    /\ cols = AttrSet
    /\ \E text \in Texts(MaxFrags) :
            grp = MkGrp(Str("A4 Avant 2.0"), Str("A4"), Str("A4 Avant"),
                        Choice(Str("5"), Str("Kombi"), Str(text),
                               Str("Occasion"), Str("Basel"), Str("7.5")))
    /\ RowStart

SpecColor == InitColor /\ [][NextRow]_vars

-----------------------------------------------------------------------------
(* Model and model-type texts                                              *)

VariantModels ==
    {Str("A4"), Str(" A4 "), Str("a4"), Str("Q5"), Str(""), Str("nan"), NaN}

VariantModelTypes ==
    {Str("A4 Avant"), Str("A4"), Str("a4  avant "), Str(" A4 Avant"),
     Str("A4Avant"), Str("Q5 Sportback"), Str("Nano"), Str("A"), Str("")}

VariantTypeNames == {Str("Q5 Sportback 45"), Str(" A4 Avant 2.0")}

InitVariant ==
    /\ prog \in Progs
    /\ cols = AttrSet
    /\ \E model \in VariantModels, modelType \in VariantModelTypes,
          typeName \in VariantTypeNames :
            /\ Groupable(prog, model, modelType)
            /\ grp = MkGrp(typeName, model, modelType,
                           Choice(Str("5"), Str("Kombi"), Str("schwarz"),
                                  Str("Occasion"), Str("Basel"), Str("7.5")))
    /\ RowStart

SpecVariant == InitVariant /\ [][NextRow]_vars

-----------------------------------------------------------------------------
(* Claims about the whole script (specification Spec)                      *)

\* The script is past the aggregation and has not raised.
Aggregated == pc \in {"aggregated", "normalized", "integrated", "done"}

\* The six-field tuples of the input, IDs as numbers.
InputTuples == {KeyOf(df[i]) : i \in 1..Len(df)}

\* The aggregated record made from the group of a tuple: equal to it on the
\* key columns, a missing model text being the record's missing or
\* placeholder value.
RecordOf(rec, key) ==
    \A k \in 1..Len(CONSTANT_COLUMNS) :
        \/ rec[CONSTANT_COLUMNS[k]] = key[k]
        \/ /\ CONSTANT_COLUMNS[k] = "ModelText"
           /\ IsNaN(key[k])
           /\ rec["ModelText"] \in {NaN, Str("nan")}

\* C1: aggregation yields exactly one aggregated record per distinct
\* (ID, MakeText, TypeName, TypeNameFull, ModelText, ModelTypeText) tuple of
\* the input; a tuple whose ModelText is missing forms its own group and is
\* not dropped, so there are as many records as distinct tuples.
C1_OneRecordPerTuple ==
    Aggregated =>
        /\ Len(df_grp_agg_attr) = Cardinality(InputTuples)
        /\ \A key \in InputTuples :
              Cardinality({i \in 1..Len(df_grp_agg_attr) :
                              RecordOf(df_grp_agg_attr[i], key)}) = 1

\* The key of a raw row, its ID as a number.
RawKey(r) == KeyOf(SetCol(r, "ID", ParseFloat(r["ID"])))

\* The (name, value) pairs of the rows of one group, in frame order.
GroupPairs(frame, key) ==
    <<Collect(frame, key, "Attribute Names"),
      Collect(frame, key, "Attribute Values")>>

\* The raw frame with the IDs as numbers, in input order.
RawConverted == [i \in 1..Len(raw) |-> SetCol(raw[i], "ID", ParseFloat(raw[i]["ID"]))]

\* The value of the last row of the input that belongs to the group and
\* bears the name.
LastWritten(key, name) ==
    LET js == {j \in 1..Len(raw) :
                  RawKey(raw[j]) = key /\ raw[j]["Attribute Names"] = Str(name)}
        last == CHOOSE j \in js : \A o \in js : o <= j
    IN  raw[last]["Attribute Values"]

NamesOf(key) ==
    {raw[j]["Attribute Names"].s :
        j \in {j \in 1..Len(raw) : RawKey(raw[j]) = key}}

\* C6: for every group, the aggregated record holds, for each attribute
\* name of the group, the value of the last row bearing that name in the
\* original input order; the sort by ID and the grouping never reorder two
\* rows of one group.
C6_LastWriteWinsInInputOrder ==
    /\ pc \in {"sorted", "grouped"} \cup {"aggregated", "normalized",
                                          "integrated", "done"} =>
          \A key \in InputTuples :
              GroupPairs(df, key) = GroupPairs(RawConverted, key)
    /\ Aggregated =>
          \A key \in InputTuples :
              \A i \in 1..Len(df_grp_agg_attr) :
                  RecordOf(df_grp_agg_attr[i], key) =>
                      \A name \in NamesOf(key) :
                          df_grp_agg_attr[i][name] = LastWritten(key, name)

\* Some raw row's ID cannot be parsed as a number.
BadID == \E i \in 1..Len(raw) : IsRaise(ParseFloat(raw[i]["ID"]))

-----------------------------------------------------------------------------
(* Claims about one record (specifications SpecRow, SpecOrder, SpecColor,  *)
(* SpecVariant)                                                            *)

\* The aggregated record exists.
HasRow == rpc \in {"aggregated", "normalized", "integrated", "aborted"}

\* The record has the column but no value in it.
Missing(r, column) == column \in DOMAIN r /\ IsNaN(r[column])

\* What each rule reads.
RuleInputs(rule) ==
    CASE rule = "cartype" -> {"Seats", "BodyTypeText"}
      [] rule = "color" -> {"BodyColorText"}
      [] rule = "condition" -> {"ConditionTypeText"}
      [] rule = "variant" -> {"ModelText", "ModelTypeText"}
      [] rule = "zip" -> {"City"}

RuleNames == {NORM_FUNCT[i][2] : i \in 1..Len(NORM_FUNCT)}

\* C2: applying any of the five rules to an aggregated record in which an
\* input of that rule is missing never raises; the lookups give "Other",
\* the colour rule "Other", the variant rule the TypeName fallback, and the
\* normalization of the record does not end the run.
C2_MissingInputNeverRaises ==
    HasRow =>
        /\ \A rule \in RuleNames :
              (\E c \in RuleInputs(rule) : Missing(row, c)) =>
                  ~IsRaise(funct(prog, rule, row))
        /\ (Missing(row, "BodyTypeText") /\ row["Seats"] # Str("1")) =>
              funct(prog, "cartype", row) = Str("Other")
        /\ Missing(row, "BodyColorText") =>
              funct(prog, "color", row) = Str("Other")
        /\ Missing(row, "ConditionTypeText") =>
              funct(prog, "condition", row) = Str("Other")
        /\ Missing(row, "City") => funct(prog, "zip", row) = Str("Other")
        /\ (Missing(row, "ModelText") \/ Missing(row, "ModelTypeText")) =>
              funct(prog, "variant", row) \in {row["TypeName"], Str("")}

\* The body-type table as the claim states it.
ClaimCarType(body) ==
    CASE body = Str("Coupé") -> Str("Coupé")
      [] body = Str("Limousine") -> Str("Saloon")
      [] body = Str("Cabriolet") -> Str("Convertible / Roadster")
      [] body = Str("Kombi") -> Str("Station Wagon")
      [] body = Str("SUV / Geländewagen") -> Str("SUV")
      [] OTHER -> Str("Other")

\* C3: for an aggregated record whose Seats value is "1" the carType rule
\* returns "Single seater" whatever BodyTypeText is; for any other seat
\* count it returns the table value of BodyTypeText, "Other" when unmatched.
C3_SingleSeaterElseTable ==
    (HasRow /\ "Seats" \in DOMAIN row /\ "BodyTypeText" \in DOMAIN row) =>
        LET res == funct(prog, "cartype", row)
        IN  /\ row["Seats"] = Str("1") => res = Str("Single seater")
            /\ row["Seats"] # Str("1") => res = ClaimCarType(row["BodyTypeText"])
            /\ rpc \in {"normalized", "integrated"} =>
                  nrow["BodyTypeText"] = res

ClaimConditions ==
    {Str("Used"), Str("Restored"), Str("New"), Str("Original Condition"),
     Str("Other")}

\* C4: for every aggregated record passed through normalize and integrate,
\* the integrated carType, color, condition, model_variant and zip equal the
\* output of the corresponding rule on that record; the integrated condition
\* is one of Used, Restored, New, Original Condition, Other, never the raw
\* ConditionTypeText.
C4_IntegratedFieldsAreRuleOutputs ==
    rpc = "integrated" =>
        /\ irow.carType = funct(prog, "cartype", row)
        /\ irow.color = funct(prog, "color", row)
        /\ irow.condition = funct(prog, "condition", row)
        /\ irow.model_variant = funct(prog, "variant", row)
        /\ irow.zip = funct(prog, "zip", row)
        /\ irow.condition \in ClaimConditions

\* The group's rows carry the attribute.
InGroup(name) ==
    \E i \in 1..Len(grp["Attribute Names"].l) :
        grp["Attribute Names"].l[i] = Str(name)

\* C5: integrate sets fuel_consumption_unit to "l_km_consumption" exactly
\* when the record's ConsumptionTotalText is present (the attribute was
\* among the record's raw rows) and is not the string "null"; otherwise the
\* unit is empty.
C5_FuelUnitIffPresentAndNotNull ==
    rpc = "integrated" =>
        LET present == /\ InGroup("ConsumptionTotalText")
                       /\ ~IsNaN(nrow["ConsumptionTotalText"])
                       /\ nrow["ConsumptionTotalText"] # None
        IN  IF present /\ nrow["ConsumptionTotalText"] # Str("null")
            THEN irow.fuel_consumption_unit = Str("l_km_consumption")
            ELSE irow.fuel_consumption_unit = None

\* b starts with a, compared case-insensitively.
StartsWithCI(b, a) ==
    \E k \in 0..Len(b) : k = Len(a) /\ Lower(SubSeq(b, 1, k)) = Lower(a)

\* C7: the variant rule trims ModelText and ModelTypeText; if the trimmed
\* ModelTypeText starts, case-insensitively, with the trimmed ModelText, it
\* returns the rest of ModelTypeText after the prefix, trimmed; otherwise
\* TypeName verbatim.  A record whose ModelText was missing and replaced by
\* the placeholder has no model text its ModelTypeText could start with,
\* and takes the TypeName fallback.
C7_VariantPrefixOrTypeName ==
    HasRow =>
        LET res == funct(prog, "variant", row)
            model == Strip(row["ModelText"].s)
            modelType == Strip(row["ModelTypeText"].s)
        IN  IF IsNaN(grp["ModelText"]) THEN res = row["TypeName"]
            ELSE IF StartsWithCI(modelType, model)
                 THEN res = Str(Strip(SubSeq(modelType, Len(model) + 1,
                                             Len(modelType))))
                 ELSE res = row["TypeName"]

\* The colour names in the order the claim gives.
ClaimColorOrder ==
    <<"Black", "Silver", "Blue", "Gray", "White", "Red", "Green", "Yellow",
      "Purple", "Gold", "Brown", "Orange", "Beige">>

\* Some German substring of the pair with this English name occurs in text.
PairOccurs(name, text) ==
    \E i \in 1..Len(COLORS) :
        /\ COLORS[i].en = name
        /\ \E k \in 1..Len(COLORS[i].de) : Contains(COLORS[i].de[k], text)

\* The claim's result: the first name, in the claim's order, whose pair
\* occurs; "Other" when none does.
ClaimColor(text) ==
    LET hits == {n \in 1..Len(ClaimColorOrder) :
                    PairOccurs(ClaimColorOrder[n], text)}
    IN  IF hits = {} THEN "Other"
        ELSE ClaimColorOrder[CHOOSE n \in hits : \A m \in hits : n <= m]

\* C8: for every BodyColorText string the colour rule returns the English
\* name of the first pair, in the order Black, Silver, Blue, Gray, White,
\* Red, Green, Yellow, Purple, Gold, Brown, Orange, Beige, one of whose
\* German substrings occurs case-sensitively in the text, and "Other" when
\* none occurs; "schwarz metallic" gives "Black" and "xyz" gives "Other".
C8_FirstPairInListOrder ==
    /\ (HasRow /\ IsStr(row["BodyColorText"])) =>
          /\ funct(prog, "color", row) = Str(ClaimColor(row["BodyColorText"].s))
          /\ row["BodyColorText"] = Str("schwarz metallic") =>
                funct(prog, "color", row) = Str("Black")
          /\ row["BodyColorText"] = Str("xyz") =>
                funct(prog, "color", row) = Str("Other")
    /\ rpc \in {"normalized", "integrated"} =>
          nrow["BodyColorText"] = Str(ClaimColor(row["BodyColorText"].s))

\* C8 witness: a normalized record whose text holds substrings of two pairs
\* (Blue and Gray) and got the earlier pair's name.
C8_Witness ==
    /\ rpc = "normalized"
    /\ row["BodyColorText"] = Str("graublau")
    /\ nrow["BodyColorText"] = Str("Blue")

\* The orders in which the five (column, rule) pairs can be applied.
AllOrders ==
    {[i \in 1..Len(NORM_FUNCT) |-> NORM_FUNCT[o[i]]] :
        o \in {o \in [1..Len(NORM_FUNCT) -> 1..Len(NORM_FUNCT)] :
                  \A i, j \in 1..Len(NORM_FUNCT) : i # j => o[i] # o[j]}}

WrittenColumns == {NORM_FUNCT[i][1] : i \in 1..Len(NORM_FUNCT)}

\* C10: applying the five (column, rule) pairs in any order, each result
\* written into the record before the next rule reads it, yields the same
\* normalized record (or raises in every order); every column other than
\* the five written ones is unchanged.
C10_RulesOrderInsensitive ==
    HasRow =>
        LET res == normalize(prog, row)
        IN  /\ \A order \in AllOrders :
                  IF IsRaise(res) THEN IsRaise(ApplyRules(prog, order, row))
                  ELSE ApplyRules(prog, order, row) = res
            /\ ~IsRaise(res) =>
                  /\ DOMAIN res = DOMAIN row \cup WrittenColumns
                  /\ \A c \in DOMAIN row \ WrittenColumns : res[c] = row[c]
            /\ rpc \in {"normalized", "integrated"} => nrow = res

\* C10 witness: a record normalized without an exception, on which the
\* carType rule rewrote BodyTypeText and the variant rule took the TypeName
\* fallback.
C10_Witness ==
    /\ rpc = "normalized"
    /\ "BodyTypeText" \in DOMAIN row
    /\ row["BodyTypeText"] = Str("Kombi")
    /\ nrow["BodyTypeText"] = Str("Station Wagon")
    /\ nrow["Variant"] = row["TypeName"]

=============================================================================
